---------------------------- MODULE Spec2Model ----------------------------
(***************************************************************************)
(* A model of juv's command-line entry point (src/juv/__init__.py) and of  *)
(* the notebook initialiser (src/juv/_init.py).                            *)
(*                                                                         *)
(* Strings are TLA+ strings; TLC treats them as sequences of characters,   *)
(* so Len, SubSeq and \o compute on them character by character.           *)
(***************************************************************************)
EXTENDS Integers, Sequences, FiniteSets, TLC

(***************************************************************************)
(* Bounds of the model.                                                    *)
(***************************************************************************)
\* Number of arguments after the program name in the argv of SpecArgv.
MaxArgs == 2
\* Untitled names below this index exist or not independently; above it the
\* existing names form one contiguous run.
Window == 2

(***************************************************************************)
(* Optional values (Python's None).                                        *)
(***************************************************************************)
None == [some |-> FALSE]
Some(x) == [some |-> TRUE, val |-> x]

(***************************************************************************)
(* String helpers.                                                         *)
(***************************************************************************)
\* str.startswith(prefix)
startswith(s, p) == Len(s) >= Len(p) /\ SubSeq(s, 1, Len(p)) = p

\* str.startswith(tuple of prefixes)
startswith_any(s, prefixes) == \E p \in prefixes : startswith(s, p)

Whitespace == {" ", "\n", "\t"}

RECURSIVE lstrip(_)
lstrip(s) ==
    IF Len(s) > 0 /\ SubSeq(s, 1, 1) \in Whitespace
    THEN lstrip(SubSeq(s, 2, Len(s)))
    ELSE s

RECURSIVE rstrip(_)
rstrip(s) ==
    IF Len(s) > 0 /\ SubSeq(s, Len(s), Len(s)) \in Whitespace
    THEN rstrip(SubSeq(s, 1, Len(s) - 1))
    ELSE s

\* str.strip()
strip(s) == rstrip(lstrip(s))

\* str.rfind(c), 1-based; 0 when c does not occur.
RECURSIVE rfind_from(_, _, _)
rfind_from(s, c, i) ==
    IF i = 0 THEN 0
    ELSE IF SubSeq(s, i, i) = c THEN i
    ELSE rfind_from(s, c, i - 1)

rfind(s, c) == rfind_from(s, c, Len(s))

\* PurePath.suffix of a bare file name: the text from the last dot on, unless
\* that dot is the first or the last character of the name.
suffix(name) ==
    LET i == rfind(name, ".")
    IN IF 1 < i /\ i < Len(name) THEN SubSeq(name, i, Len(name)) ELSE ""

\* str(i) for a natural number.
Digits == <<"0", "1", "2", "3", "4", "5", "6", "7", "8", "9">>

RECURSIVE str(_)
str(i) ==
    IF i < 10 THEN Digits[i + 1]
    ELSE str(i \div 10) \o Digits[(i % 10) + 1]

(***************************************************************************)
(* State.                                                                  *)
(***************************************************************************)
VARIABLES
    argv,        \* sys.argv
    environ,     \* os.environ, restricted to JUV_JUPYTER
    uv_on_path,  \* whether the `uv` executable is on PATH
    fs,          \* the working directory: file name -> content
    pc,          \* position of the process in the program
    params,      \* the parameters click hands to the command callback
    path_arg,    \* _init.init: the argument `path` it was called with
    path,        \* _init.init: local `path`
    packages,    \* _init.init: parameter `packages`
    notebook,    \* the notebook document under construction
    written,     \* the path write_ipynb wrote to, if any
    events,      \* what the process has printed, run and written, in order
    status,      \* how the process ended
    argv0,       \* history: argv when the process started
    environ0,    \* history: environ when the process started
    fs0          \* history: the directory when the process started

vars == <<argv, environ, uv_on_path, fs, pc, params, path_arg, path, packages,
          notebook, written, events, status, argv0, environ0, fs0>>

NoEnv == [x \in {} |-> ""]
Running == [kind |-> "running"]
Exit(code) == [kind |-> "exit", code |-> code]
Raise(exc) == [kind |-> "raise", exc |-> exc]
NoParams == [cmd |-> ""]
NoNotebook == [cells |-> <<>>]

(***************************************************************************)
(* upgrade_legacy_jupyter_command                                          *)
(***************************************************************************)
LegacyNames == {"lab", "notebook", "nbclassic"}

\* The condition of the `if` inside the loop, at 1-based index i > 1.
is_legacy_command(args, i) ==
    /\ startswith_any(args[i], LegacyNames)
    /\ ~startswith(args[i - 1], "--")
    /\ ~startswith(args[i], "--")

\* The loop over enumerate(args) from 1-based index i on; st carries the
\* list being rewritten in place, the environment and the warnings printed.
RECURSIVE upgrade_loop(_, _)
upgrade_loop(st, i) ==
    IF i > Len(st.args) THEN st
    ELSE IF i = 1 THEN upgrade_loop(st, i + 1)
    ELSE IF is_legacy_command(st.args, i)
    THEN upgrade_loop(
            [args |-> [st.args EXCEPT ![i] = "run"],
             env |-> [x \in {"JUV_JUPYTER"} |-> st.args[i]],
             out |-> Append(st.out, [op |-> "warning", arg |-> st.args[i]])],
            i + 1)
    ELSE upgrade_loop(st, i + 1)

upgrade_legacy_jupyter_command(args, env) ==
    upgrade_loop([args |-> args, env |-> env, out |-> <<>>], 1)

\* main(), up to the call of cli().
Main ==
    /\ pc = "main"
    /\ LET r == upgrade_legacy_jupyter_command(argv, environ)
       IN /\ argv' = r.args
          /\ environ' = r.env
          /\ events' = events \o r.out
    /\ pc' = "cli"
    /\ UNCHANGED <<uv_on_path, fs, params, path_arg, path, packages, notebook, written,
                   status, argv0, environ0, fs0>>

(***************************************************************************)
(* The argv rewrite on its own: every short argv over ArgWords.            *)
(***************************************************************************)
ProgNames == {"juv", "lab"}

ArgWords == {"lab", "notebook", "nbclassic", "run", "add", "notebook.ipynb",
             "lab_results.ipynb", "numpy", "--jupyter", "--with"}

RECURSIVE SeqsOfLen(_, _)
SeqsOfLen(S, n) ==
    IF n = 0 THEN {<<>>}
    ELSE {Append(s, x) : s \in SeqsOfLen(S, n - 1), x \in S}

SeqsUpTo(S, n) == UNION {SeqsOfLen(S, k) : k \in 0..n}

InitArgv ==
    /\ argv \in {<<p>> \o a : p \in ProgNames, a \in SeqsUpTo(ArgWords, MaxArgs)}
    /\ environ \in {NoEnv, [x \in {"JUV_JUPYTER"} |-> "nbclassic"]}
    /\ uv_on_path = TRUE
    /\ fs = [x \in {} |-> None]
    /\ pc = "main"
    /\ params = NoParams
    /\ path_arg = None
    /\ path = None
    /\ packages = <<>>
    /\ notebook = NoNotebook
    /\ written = None
    /\ events = <<>>
    /\ status = Running
    /\ argv0 = argv
    /\ environ0 = environ
    /\ fs0 = fs

NextArgv == Main

SpecArgv == InitArgv /\ [][NextArgv]_vars

(***************************************************************************)
(* Files and notebooks.                                                    *)
(***************************************************************************)
\* _nbconvert.code_cell(source, hidden): a code cell.  `dependencies` is the
\* package list of the metadata block embedded in the cell's source.
code_cell(source, hidden) ==
    [cell_type |-> "code", source |-> source, hidden |-> hidden,
     dependencies |-> {}]

\* _nbconvert.new_notebook(cells)
new_notebook(cells) == [cells |-> cells]

\* The content of a file that is not a notebook this program reads.
Blob(text) == [text |-> text]

IsNotebook(content) == "cells" \in DOMAIN content /\ Len(content.cells) >= 1

\* Path.exists(), for a file name in the working directory.
exists(fsys, name) == name \in DOMAIN fsys

\* Writing `content` to `name`, replacing what was there.
write_file(fsys, name, content) ==
    [x \in DOMAIN fsys \cup {name} |-> IF x = name THEN content ELSE fsys[x]]

\* Unlinking `name`.
remove_file(fsys, name) == [x \in DOMAIN fsys \ {name} |-> fsys[x]]

\* _nbconvert.write_ipynb(notebook, path)
write_ipynb(fsys, nb, name) == write_file(fsys, name, nb)

\* _add.add(path, packages, requirements=None): the package manager adds the
\* packages to the metadata block of the notebook at `path`, which must be an
\* existing notebook; the file is rewritten in place.
add(fsys, p, pkgs, uv) ==
    IF ~p.some THEN [status |-> Raise("TypeError"), fs |-> fsys]
    ELSE IF ~exists(fsys, p.val) THEN
        [status |-> Raise("FileNotFoundError"), fs |-> fsys]
    ELSE IF ~IsNotebook(fsys[p.val]) THEN
        [status |-> Raise("JSONDecodeError"), fs |-> fsys]
    ELSE IF ~uv THEN [status |-> Raise("FileNotFoundError"), fs |-> fsys]
    ELSE [status |-> Running,
          fs |-> write_file(fsys, p.val,
                    [fsys[p.val] EXCEPT !.cells[1].dependencies =
                        @ \cup {pkgs[i] : i \in 1..Len(pkgs)}])]

(***************************************************************************)
(* get_first_non_conflicting_untitled_ipynb                                *)
(***************************************************************************)
\* The stop of range(1, 100).
RangeStop == 100

\* f"Untitled{i}.ipynb"
untitled_numbered(i) == "Untitled" \o str(i) \o ".ipynb"

\* Mutant: an exhausted probe falls back to the last candidate.
RECURSIVE untitled_loop_fallback(_, _)
untitled_loop_fallback(fsys, i) ==
    IF i >= RangeStop THEN
        [status |-> Running, path |-> Some(untitled_numbered(RangeStop - 1))]
    ELSE IF ~exists(fsys, untitled_numbered(i))
    THEN [status |-> Running, path |-> Some(untitled_numbered(i))]
    ELSE untitled_loop_fallback(fsys, i + 1)

\* The loop `for i in range(1, 100)` from i on.
RECURSIVE untitled_loop(_, _)
untitled_loop(fsys, i) ==
    IF i >= RangeStop THEN [status |-> Raise("ValueError"), path |-> None]
    ELSE IF ~exists(fsys, untitled_numbered(i))
    THEN [status |-> Running, path |-> Some(untitled_numbered(i))]
    ELSE untitled_loop(fsys, i + 1)

\* Mutant: the numbered probe starts at 2.
get_first_skipping_one(fsys) ==
    IF ~exists(fsys, "Untitled.ipynb")
    THEN [status |-> Running, path |-> Some("Untitled.ipynb")]
    ELSE untitled_loop(fsys, 2)

get_first_non_conflicting_untitled_ipynb(fsys) ==
    IF ~exists(fsys, "Untitled.ipynb")
    THEN [status |-> Running, path |-> Some("Untitled.ipynb")]
    ELSE untitled_loop(fsys, 1)

(***************************************************************************)
(* assert_uv_available: defined by the program, called from nowhere.       *)
(***************************************************************************)
assert_uv_available(on_path) == IF on_path THEN Running ELSE Exit(1)

(***************************************************************************)
(* click: the command line of each command.                                *)
(***************************************************************************)
\* The options that take a value, per command.
ValueOptions(cmd) ==
    CASE cmd = "init" -> {"--python", "--with"}
      [] cmd = "add" -> {"--requirements", "-r"}
      [] cmd = "run" -> {"--jupyter", "--with", "--python"}
      [] OTHER -> {}

Commands == {"version", "info", "init", "add", "run"}

\* Options and positional arguments of args[i..], collected into acc.
RECURSIVE parse_args(_, _, _, _)
parse_args(cmd, args, i, acc) ==
    IF i > Len(args) THEN acc
    ELSE IF args[i] \in ValueOptions(cmd) THEN
        IF i + 1 > Len(args) THEN [acc EXCEPT !.usage_error = TRUE]
        ELSE parse_args(cmd, args, i + 2,
                [acc EXCEPT !.options =
                    Append(@, [name |-> args[i], value |-> args[i + 1]])])
    ELSE IF startswith(args[i], "-") /\ Len(args[i]) > 1 THEN
        [acc EXCEPT !.usage_error = TRUE]
    ELSE parse_args(cmd, args, i + 1,
            [acc EXCEPT !.positional = Append(@, args[i])])

\* The values given for option `name`, in order.
RECURSIVE option_values(_, _)
option_values(options, name) ==
    IF options = <<>> THEN <<>>
    ELSE LET rest == option_values(Tail(options), name)
         IN IF Head(options).name = name
            THEN <<Head(options).value>> \o rest
            ELSE rest

\* The last value given for a single-valued option, or None.
option_value(options, name) ==
    LET vs == option_values(options, name)
    IN IF vs = <<>> THEN None ELSE Some(vs[Len(vs)])

\* cli(): the command named by argv[1] and the parameters of its callback,
\* or a usage error.  click.Path(exists=True) is checked here.
parse_cli(args, fsys) ==
    IF Len(args) < 2 \/ args[2] \notin Commands THEN [cmd |-> "usage_error"]
    ELSE
        LET cmd == args[2]
            p == parse_args(cmd, args, 3,
                    [options |-> <<>>, positional |-> <<>>, usage_error |-> FALSE])
            n == Len(p.positional)
        IN IF p.usage_error THEN [cmd |-> "usage_error"]
           ELSE CASE cmd \in {"version", "info"} ->
                    IF n = 0 THEN [cmd |-> cmd] ELSE [cmd |-> "usage_error"]
                  [] cmd = "init" ->
                    IF n > 1 THEN [cmd |-> "usage_error"]
                    ELSE [cmd |-> "init",
                          file |-> IF n = 1 THEN Some(p.positional[1]) ELSE None,
                          python |-> option_value(p.options, "--python"),
                          with_args |-> option_values(p.options, "--with")]
                  [] cmd = "add" ->
                    IF n = 0 \/ ~exists(fsys, p.positional[1])
                    THEN [cmd |-> "usage_error"]
                    ELSE [cmd |-> "add", file |-> p.positional[1],
                          packages |-> Tail(p.positional)]
                  [] cmd = "run" ->
                    IF n # 1 \/ ~exists(fsys, p.positional[1])
                    THEN [cmd |-> "usage_error"]
                    ELSE [cmd |-> "run", file |-> p.positional[1],
                          jupyter |-> option_value(p.options, "--jupyter"),
                          python |-> option_value(p.options, "--python"),
                          with_args |-> option_values(p.options, "--with")]

(***************************************************************************)
(* The commands other than init.                                           *)
(***************************************************************************)
Log(e) == events' = Append(events, e)

\* cli(): click parses the (rewritten) argv and calls the command.
Cli ==
    /\ pc = "cli"
    /\ LET p == parse_cli(argv, fs)
       IN /\ params' = p
          /\ IF p.cmd = "usage_error"
             THEN /\ Log([op |-> "stderr", text |-> "Usage"])
                  /\ status' = Exit(2)
                  /\ pc' = "done"
             ELSE /\ UNCHANGED <<events, status>>
                  /\ pc' = p.cmd
    /\ UNCHANGED <<argv, environ, uv_on_path, fs, path_arg, path, packages, notebook,
                   written, argv0, environ0, fs0>>

\* version()
Version ==
    /\ pc = "version"
    /\ events' = events \o <<[op |-> "call", fn |-> "version"],
                              [op |-> "stdout", text |-> "juv version"]>>
    /\ status' = Exit(0)
    /\ pc' = "done"
    /\ UNCHANGED <<argv, environ, uv_on_path, fs, params, path_arg, path, packages,
                   notebook, written, argv0, environ0, fs0>>

\* info()
Info ==
    /\ pc = "info"
    /\ IF uv_on_path
       THEN /\ events' = events \o
                   <<[op |-> "call", fn |-> "info"],
                     [op |-> "stdout", text |-> "juv version"],
                     [op |-> "subprocess", cmd |-> <<"uv", "version">>],
                     [op |-> "stdout", text |-> "uv version"]>>
            /\ status' = Exit(0)
       ELSE /\ events' = events \o
                   <<[op |-> "call", fn |-> "info"],
                     [op |-> "stdout", text |-> "juv version"],
                     [op |-> "subprocess", cmd |-> <<"uv", "version">>]>>
            /\ status' = Raise("FileNotFoundError")
    /\ pc' = "done"
    /\ UNCHANGED <<argv, environ, uv_on_path, fs, params, path_arg, path, packages,
                   notebook, written, argv0, environ0, fs0>>

\* add(file, requirements, packages)
AddCommand ==
    /\ pc = "add"
    /\ LET r == add(fs, Some(params.file), params.packages, uv_on_path)
       IN /\ fs' = r.fs
          /\ IF r.status = Running
             THEN /\ events' = events \o
                         <<[op |-> "call", fn |-> "add"],
                           [op |-> "add", path |-> Some(params.file),
                            packages |-> params.packages],
                           [op |-> "stdout", text |-> "Updated",
                            path |-> params.file]>>
                  /\ status' = Exit(0)
             ELSE /\ events' = events \o
                         <<[op |-> "call", fn |-> "add"],
                           [op |-> "add", path |-> Some(params.file),
                            packages |-> params.packages]>>
                  /\ status' = r.status
    /\ pc' = "done"
    /\ UNCHANGED <<argv, environ, uv_on_path, params, path_arg, path, packages, notebook,
                   written, argv0, environ0, fs0>>

\* _run.run: the frontend is the explicit one, else JUV_JUPYTER, else lab.
run_frontend(jupyter, env) ==
    IF jupyter.some THEN jupyter.val
    ELSE IF "JUV_JUPYTER" \in DOMAIN env THEN env["JUV_JUPYTER"]
    ELSE "lab"

\* run(file, jupyter, with_args, python)
RunCommand ==
    /\ pc = "run"
    /\ events' = events \o
           <<[op |-> "call", fn |-> "run"],
             [op |-> "run", path |-> params.file,
              jupyter |-> run_frontend(params.jupyter, environ)]>>
    /\ status' = IF uv_on_path THEN Exit(0) ELSE Raise("FileNotFoundError")
    /\ pc' = "done"
    /\ UNCHANGED <<argv, environ, uv_on_path, fs, params, path_arg, path, packages,
                   notebook, written, argv0, environ0, fs0>>

(***************************************************************************)
(* init                                                                    *)
(***************************************************************************)
\* The command callback's local `path`: Path(file) if file else None.
cli_path(p) == IF p.file.some /\ p.file.val # "" THEN p.file ELSE None

\* init(file, python, with_args), up to the call of _init.init, which is
\* given path and python and no packages.
InitCommand ==
    /\ pc = "init"
    /\ path' = cli_path(params)
    /\ path_arg' = cli_path(params)
    /\ packages' = <<>>
    /\ Log([op |-> "call", fn |-> "init"])
    /\ pc' = "init.resolve"
    /\ UNCHANGED <<argv, environ, uv_on_path, fs, params, notebook, written,
                   status, argv0, environ0, fs0>>

\* _init.init: if not path: path = get_first_non_conflicting_untitled_ipynb(cwd)
InitResolve ==
    /\ pc = "init.resolve"
    /\ IF path.some
       THEN /\ pc' = "init.validate"
            /\ UNCHANGED <<path, status>>
       ELSE LET r == get_first_non_conflicting_untitled_ipynb(fs)
            IN IF r.status = Running
               THEN /\ path' = r.path
                    /\ pc' = "init.validate"
                    /\ UNCHANGED status
               ELSE /\ status' = r.status
                    /\ pc' = "done"
                    /\ UNCHANGED path
    /\ UNCHANGED <<argv, environ, uv_on_path, fs, params, path_arg, packages, notebook,
                   written, events, argv0, environ0, fs0>>

\* Mutant: any extension passes.
has_any_suffix(name) == suffix(name) # ""

\* The extension test of _init.init.
has_notebook_suffix(name) == suffix(name) = ".ipynb"

\* _init.init: if path.suffix != ".ipynb": print to stderr and sys.exit(1)
InitValidate ==
    /\ pc = "init.validate"
    /\ IF has_notebook_suffix(path.val)
       THEN /\ pc' = "init.build"
            /\ UNCHANGED <<events, status>>
       ELSE /\ Log([op |-> "stderr", text |-> "File must have a .ipynb extension."])
            /\ status' = Exit(1)
            /\ pc' = "done"
    /\ UNCHANGED <<argv, environ, uv_on_path, fs, params, path_arg, path, packages,
                   notebook, written, argv0, environ0, fs0>>

\* The name tempfile gives the scratch file; it is fresh in the directory.
ScratchName == "tmpscratch.py"

\* new_notebook_with_inline_metadata: entering the `with` creates the
\* scratch file in the parent directory of path.
BuildOpen ==
    /\ pc = "init.build"
    /\ fs' = write_file(fs, ScratchName, Blob(""))
    /\ Log([op |-> "tempfile", name |-> ScratchName])
    /\ pc' = "init.uv"
    /\ UNCHANGED <<argv, environ, uv_on_path, params, path_arg, path, packages, notebook,
                   written, status, argv0, environ0, fs0>>

\* The command line handed to subprocess.run.
uv_init_command(python, name) ==
    <<"uv", "init", "--quiet">>
        \o (IF python.some /\ python.val # "" THEN <<"--python", python.val>> ELSE <<>>)
        \o <<"--script", name>>

\* What the package manager may do when it runs: exit 0 having written a
\* script stub into the scratch file, or exit non-zero having written nothing.
ScriptStubs ==
    {"# /// script\n# dependencies = []\n# ///\n",
     "\n# /// script\n# ///\n\nprint(1)\n  ",
     "# /// script\n# ///"}

UvOutcomes ==
    {[returncode |-> 0, text |-> s] : s \in ScriptStubs}
        \cup {[returncode |-> 2, text |-> ""]}

\* Mutant: the cell is not hidden.
notebook_from_script_visible(text) ==
    new_notebook(<<code_cell(strip(text), FALSE)>>)

\* The body of the `with` after subprocess.run returned: the scratch file's
\* text becomes the source of the only cell.
notebook_from_script(text) == new_notebook(<<code_cell(strip(text), TRUE)>>)

\* new_notebook_with_inline_metadata: subprocess.run and the rest of the
\* `with`; leaving the `with` deletes the scratch file on every path.
BuildRun ==
    /\ pc = "init.uv"
    /\ fs' = remove_file(fs, ScratchName)
    /\ IF uv_on_path
       THEN \E out \in UvOutcomes :
                /\ Log([op |-> "subprocess",
                        cmd |-> uv_init_command(params.python, ScratchName),
                        returncode |-> out.returncode, wrote |-> out.text])
                /\ notebook' = notebook_from_script(out.text)
                /\ pc' = "init.persist"
                /\ UNCHANGED status
       ELSE /\ Log([op |-> "subprocess",
                    cmd |-> uv_init_command(params.python, ScratchName),
                    returncode |-> -1, wrote |-> ""])
            /\ status' = Raise("FileNotFoundError")
            /\ pc' = "done"
            /\ UNCHANGED notebook
    /\ UNCHANGED <<argv, environ, uv_on_path, params, path_arg, path, packages, written,
                   argv0, environ0, fs0>>

\* _init.init: write_ipynb(notebook, path)
InitPersist ==
    /\ pc = "init.persist"
    /\ fs' = write_ipynb(fs, notebook, path.val)
    /\ written' = path
    /\ Log([op |-> "write_ipynb", path |-> path])
    /\ pc' = "init.packages"
    /\ UNCHANGED <<argv, environ, uv_on_path, params, path_arg, path, packages, notebook,
                   status, argv0, environ0, fs0>>

\* _init.init: if packages: add(path=path, packages=packages, requirements=None)
InitPackages ==
    /\ pc = "init.packages"
    /\ IF packages # <<>>
       THEN LET r == add(fs, path, packages, uv_on_path)
            IN /\ fs' = r.fs
               /\ Log([op |-> "add", path |-> path, packages |-> packages])
               /\ status' = r.status
               /\ pc' = IF r.status = Running THEN "init.confirm" ELSE "done"
       ELSE /\ pc' = "init.confirm"
            /\ UNCHANGED <<fs, events, status>>
    /\ UNCHANGED <<argv, environ, uv_on_path, params, path_arg, path, packages, notebook,
                   written, argv0, environ0, fs0>>

\* _init.init: the confirmation, and the return to the caller.
InitConfirm ==
    /\ pc = "init.confirm"
    /\ Log([op |-> "stdout", text |-> "Initialized notebook", path |-> path.val])
    /\ IF params.cmd = "init"
       THEN /\ pc' = "init.with"
            /\ UNCHANGED status
       ELSE /\ pc' = "done"
            /\ status' = [kind |-> "return"]
    /\ UNCHANGED <<argv, environ, uv_on_path, fs, params, path_arg, path, packages,
                   notebook, written, argv0, environ0, fs0>>

\* init(file, python, with_args), after _init.init returned:
\* if with_args: add(path=path, packages=with_args, requirements=None)
InitWith ==
    /\ pc = "init.with"
    /\ IF params.with_args # <<>>
       THEN LET r == add(fs, cli_path(params), params.with_args, uv_on_path)
            IN /\ fs' = r.fs
               /\ Log([op |-> "add", path |-> cli_path(params),
                       packages |-> params.with_args])
               /\ status' = IF r.status = Running THEN Exit(0) ELSE r.status
       ELSE /\ status' = Exit(0)
            /\ UNCHANGED <<fs, events>>
    /\ pc' = "done"
    /\ UNCHANGED <<argv, environ, uv_on_path, params, path_arg, path, packages, notebook,
                   written, argv0, environ0, fs0>>

(***************************************************************************)
(* The program: one process, started from the command line or by a call of *)
(* _init.init.                                                             *)
(***************************************************************************)
\* "Untitled.ipynb" for 0, f"Untitled{i}.ipynb" for i >= 1.
untitled_name(i) == IF i = 0 THEN "Untitled.ipynb" ELSE untitled_numbered(i)

\* A notebook that was in the directory before the process started.
OldNotebook == new_notebook(<<code_cell("# /// script\n# ///", TRUE)>>)

Directory(names) == [x \in names |-> OldNotebook]

\* Directories in which the Untitled names below Window exist or not
\* independently and those from Window on exist up to some index.
ProbeDirectories ==
    {Directory({untitled_name(i) : i \in h \cup Window..(k - 1)} \cup e) :
        h \in SUBSET (0..(Window - 1)), k \in Window..RangeStop,
        e \in SUBSET {"foo.ipynb"}}

FewDirectories ==
    {Directory({untitled_name(i) : i \in h} \cup e) :
        h \in SUBSET (0..(Window - 1)), e \in SUBSET {"foo.ipynb"}}

\* Command lines of init that leave FILE out.
ProbeCommandLines ==
    {<<"juv", "init">>, <<"juv", "init", "--with", "requests">>,
     <<"juv", "init", "">>}

FileCommandLines ==
    {<<"juv", "init", "foo.ipynb">>,
     <<"juv", "init", "foo.txt">>,
     <<"juv", "init", ".ipynb">>,
     <<"juv", "init", "lab.ipynb">>,
     <<"juv", "init", "--with", "requests", "foo.ipynb">>,
     <<"juv", "init", "--with", "requests", "--with", "numpy", "foo.txt">>,
     <<"juv", "init", "--python", "3.12", "Untitled.ipynb">>,
     <<"juv", "add", "foo.ipynb", "numpy">>,
     <<"juv", "run", "foo.ipynb">>,
     <<"juv", "lab", "foo.ipynb">>,
     <<"juv", "info">>,
     <<"juv", "version">>,
     <<"juv", "frobnicate">>}

InitProcess ==
    /\ uv_on_path \in BOOLEAN
    /\ environ = NoEnv
    /\ notebook = NoNotebook
    /\ written = None
    /\ events = <<>>
    /\ status = Running
    /\ argv0 = argv
    /\ environ0 = environ
    /\ fs0 = fs

\* The program is started from the command line.
InitCli ==
    /\ \/ argv \in ProbeCommandLines /\ fs \in ProbeDirectories
       \/ argv \in FileCommandLines /\ fs \in FewDirectories
    /\ pc = "main"
    /\ params = NoParams
    /\ path_arg = None
    /\ path = None
    /\ packages = <<>>
    /\ InitProcess

\* _init.init is called directly.
InitApi ==
    /\ argv = <<"python">>
    /\ pc = "init.resolve"
    /\ params \in {[cmd |-> "api", python |-> v] : v \in {None, Some("3.12")}}
    /\ packages \in {<<>>, <<"requests">>}
    /\ \/ path = None /\ fs \in ProbeDirectories
       \/ path \in {Some("foo.ipynb"), Some("foo.txt")} /\ fs \in FewDirectories
    /\ path_arg = path
    /\ InitProcess

Init == InitCli \/ InitApi

Next ==
    \/ Main
    \/ Cli
    \/ Version
    \/ Info
    \/ AddCommand
    \/ RunCommand
    \/ InitCommand
    \/ InitResolve
    \/ InitValidate
    \/ BuildOpen
    \/ BuildRun
    \/ InitPersist
    \/ InitPackages
    \/ InitConfirm
    \/ InitWith

Spec == Init /\ [][Next]_vars

(***************************************************************************)
(* Claims about the argv rewrite.                                          *)
(***************************************************************************)
\* An argument in a positional slot: not argv[0], not directly after a flag.
Positional(args, i) == i > 1 /\ ~startswith(args[i - 1], "--")

LegacySlots(args) ==
    {i \in 1..Len(args) : args[i] \in LegacyNames /\ Positional(args, i)}

\* C4: when the program is invoked with a legacy frontend name as its
\* positional command (argv[1] in Python's numbering), the rewrite replaces
\* that argument by "run", sets JUV_JUPYTER to the legacy name, keeps the
\* length of argv, and leaves every other argument (in particular every
\* argument starting with "--") with its value and position.
LegacyRewriteExact ==
    (pc = "cli" /\ Len(argv0) >= 2 /\ LegacySlots(argv0) = {2}) =>
        /\ Len(argv) = Len(argv0)
        /\ argv[2] = "run"
        /\ environ = [x \in {"JUV_JUPYTER"} |-> argv0[2]]
        /\ \A j \in 1..Len(argv0) : j # 2 => argv[j] = argv0[j]

\* C8: an argument is rewritten only if it is exactly a legacy name in a
\* positional slot, and an argv holding no argument that is exactly a legacy
\* name leaves argv and the environment unchanged.
RewriteOnlyLegacyNames ==
    pc = "cli" =>
        /\ Len(argv) = Len(argv0)
        /\ \A i \in 1..Len(argv0) : argv[i] # argv0[i] => i \in LegacySlots(argv0)
        /\ (\A i \in 1..Len(argv0) : argv0[i] \notin LegacyNames) =>
               (argv = argv0 /\ environ = environ0)

(***************************************************************************)
(* Claims about init and the entry point.                                  *)
(***************************************************************************)
EventsOf(op) == {i \in 1..Len(events) : events[i].op = op}

\* The process is inside or past _init.init.
InInit == params.cmd \in {"init", "api"}

\* _init.init has a resolved path or has failed to resolve one.
PastResolve == InInit /\ pc \notin {"main", "cli", "init", "init.resolve"}

Candidates == 0..(RangeStop - 1)

AllTaken(fsys) == \A i \in Candidates : exists(fsys, untitled_name(i))

\* C1: when init is given no path, the path it resolves is the first of
\* Untitled.ipynb, Untitled1.ipynb, ..., Untitled99.ipynb that does not exist
\* in the directory: it does not exist, and every earlier candidate does.
ResolverReturnsFirstFree ==
    (PastResolve /\ ~path_arg.some /\ path.some) =>
        \E k \in Candidates :
            /\ path.val = untitled_name(k)
            /\ ~exists(fs0, path.val)
            /\ \A j \in 0..(k - 1) : exists(fs0, untitled_name(j))

ResolverWitness ==
    /\ pc = "init.validate"
    /\ ~path_arg.some
    /\ path = Some("Untitled42.ipynb")
    /\ \A j \in 0..41 : exists(fs0, untitled_name(j))

\* C7: with all 100 candidate names taken, resolving fails with ValueError,
\* no path is resolved and no notebook is written; and ValueError is raised
\* only when init was given no path and all 100 names are taken.
ExhaustionRaises ==
    /\ (PastResolve /\ ~path_arg.some /\ AllTaken(fs0)) =>
           /\ pc = "done"
           /\ status = Raise("ValueError")
           /\ ~path.some
           /\ ~written.some
           /\ fs = fs0
           /\ EventsOf("write_ipynb") = {}
    /\ status = Raise("ValueError") => (~path_arg.some /\ AllTaken(fs0))

ExhaustionWitness ==
    /\ pc = "done"
    /\ status = Raise("ValueError")
    /\ params.cmd = "init"
    /\ AllTaken(fs0)

\* C2: init with a path whose extension is not .ipynb stops at the extension
\* check: the process ends with exit status 1, the directory is as it was,
\* and no scratch file was created, no tool was run, no notebook was written
\* and no package was added, whether or not packages were given.
ExtensionCheckedFirst ==
    (PastResolve /\ path.some /\ suffix(path.val) # ".ipynb") =>
        /\ pc \in {"init.validate", "done"}
        /\ pc = "done" => status = Exit(1)
        /\ fs = fs0
        /\ ~written.some
        /\ EventsOf("tempfile") = {}
        /\ EventsOf("subprocess") = {}
        /\ EventsOf("write_ipynb") = {}
        /\ EventsOf("add") = {}

ExtensionWitness ==
    /\ pc = "done"
    /\ status = Exit(1)
    /\ params.cmd = "init"
    /\ params.with_args # <<>>
    /\ path = Some("foo.txt")
    /\ fs = fs0

\* The text the package manager wrote into the scratch file, and its exit
\* status, as recorded when new_notebook_with_inline_metadata ran it.
ToolRuns == {i \in EventsOf("subprocess") : events[i].cmd[2] = "init"}

AllWhitespace(t) == \A i \in 1..Len(t) : SubSeq(t, i, i) \in Whitespace

\* src is text without its leading and trailing whitespace, the characters
\* in between kept as they are.
IsStripped(src, text) ==
    /\ \E a, b \in 0..Len(text) :
          /\ a + b <= Len(text)
          /\ src = SubSeq(text, a + 1, Len(text) - b)
          /\ AllWhitespace(SubSeq(text, 1, a))
          /\ AllWhitespace(SubSeq(text, Len(text) - b + 1, Len(text)))
    /\ src # "" => /\ SubSeq(src, 1, 1) \notin Whitespace
                   /\ SubSeq(src, Len(src), Len(src)) \notin Whitespace

\* The notebook at `name` has exactly one cell, a hidden code cell.
OneHiddenCodeCell(name) ==
    /\ exists(fs, name)
    /\ IsNotebook(fs[name])
    /\ Len(fs[name].cells) = 1
    /\ fs[name].cells[1].cell_type = "code"
    /\ fs[name].cells[1].hidden = TRUE

\* init has written a notebook where no file was, and no packages were asked.
WroteNewNotebook ==
    /\ InInit
    /\ written.some
    /\ ~exists(fs0, written.val)
    /\ packages = <<>>
    /\ params.cmd = "init" => params.with_args = <<>>

\* C6 as stated: init on a path where no file exists writes a notebook with
\* exactly one cell, a hidden code cell, whose source is character for
\* character the text the package manager wrote into the scratch file.
StubCapturedVerbatim ==
    (WroteNewNotebook /\ path_arg.some) =>
        /\ OneHiddenCodeCell(written.val)
        /\ \A i \in ToolRuns : fs[written.val].cells[1].source = events[i].wrote

\* C6 as amended: init on a path where no file exists writes a notebook with
\* exactly one cell, a hidden code cell, whose source is the text the package
\* manager wrote into the scratch file with its leading and trailing
\* whitespace removed.
StubCapturedStripped ==
    WroteNewNotebook =>
        /\ OneHiddenCodeCell(written.val)
        /\ ToolRuns # {}
        /\ \A i \in ToolRuns :
               IsStripped(fs[written.val].cells[1].source, events[i].wrote)

StubWitness ==
    /\ WroteNewNotebook
    /\ pc = "done"
    /\ status = Exit(0)
    /\ written = Some("foo.ipynb")
    /\ \E i \in ToolRuns :
          /\ events[i].returncode = 0
          /\ events[i].wrote = "# /// script\n# dependencies = []\n# ///\n"
          /\ fs["foo.ipynb"].cells[1].source =
                 "# /// script\n# dependencies = []\n# ///"

\* C9: when the package manager run by the notebook constructor is absent or
\* exits non-zero, the process ends with an error: no notebook is written
\* and no confirmation is printed.
ToolFailurePropagates ==
    (\E i \in ToolRuns : events[i].returncode # 0) =>
        /\ pc = "done"
        /\ status.kind = "raise"
        /\ ~written.some
        /\ \A j \in EventsOf("stdout") : events[j].text # "Initialized notebook"

\* C3: when the init command is given packages and the notebook has been
\* built and written, the package addition is run against the written file
\* and, once the process has ended, that notebook lists the packages.
AddTargetsWrittenNotebook ==
    (/\ params.cmd = "init"
     /\ params.with_args # <<>>
     /\ pc = "done"
     /\ written.some
     /\ \A i \in ToolRuns : events[i].returncode = 0) =>
        /\ EventsOf("add") # {}
        /\ \A i \in EventsOf("add") : events[i].path = written
        /\ \A k \in 1..Len(params.with_args) :
               params.with_args[k] \in fs[written.val].cells[1].dependencies

\* C10: in a run of the init command with packages, the notebook is written
\* before the package addition starts, and the confirmation is printed only
\* after the package addition has been run.
ConfirmationAfterAddition ==
    (params.cmd = "init" /\ params.with_args # <<>>) =>
        /\ \A i \in EventsOf("add") :
               \E j \in EventsOf("write_ipynb") : j < i
        /\ \A i \in EventsOf("stdout") :
               events[i].text = "Initialized notebook" =>
                   \E j \in EventsOf("add") : j < i

\* C5: when uv is not on PATH, a process started through main ends with exit
\* status 1 before the body of init, add, run or info executes.
MissingToolStopsAtEntry ==
    (~uv_on_path /\ params.cmd \in {"init", "add", "run", "info"}) =>
        /\ EventsOf("call") = {}
        /\ pc = "done" => status = Exit(1)

=============================================================================
